---- MODULE Spec2Model ----
(***************************************************************************)
(* A model of sunstone's plugin Registry (src/core/arch/DependencyCollec-  *)
(* tion.js, lines 72-378): the plugin map, the resolve -> prioritize ->    *)
(* initialize pipeline, and the Plugin objects the registry links; and of  *)
(* DependencyCollection (lines 1-71), the filterable view over the         *)
(* descriptors of an Injector.                                             *)
(*                                                                         *)
(* Plugin objects live in a heap (a sequence of records); a plugin is      *)
(* referred to by its index in the heap, which stands for JavaScript       *)
(* object identity.  0 stands for `undefined`.                             *)
(***************************************************************************)
EXTENDS Integers, Sequences, FiniteSets, TLC

\* The most Plugin objects constructed by registry.plugin() in one behaviour.
MaxPlugins == 2

\* The most dependencies one metadata object declares.
MaxDeps == 2

\* Plugin names (keys of the registry map).
Names == {"a", "b", "c"}

\* The order in which a metadata.dependencies literal lists its keys.
NameSeq == <<"a", "b", "c">>

\* Semantic versions MAJOR.MINOR.PATCH a plugin may declare.
Versions == {<<1, 0, 0>>, <<2, 0, 0>>}

\* Version ranges a dependency may be declared with (caret ranges).
Ranges == {[op |-> "^", v |-> <<1, 0, 0>>]}

\* The values handed to set(): a Plugin instance (by identity) or some other
\* object.
PluginValue(id) == [type |-> "Plugin", id |-> id]
NotAPlugin == [type |-> "Object", id |-> 0]

VARIABLES
  heap,         \* every Plugin object constructed so far
  keys,         \* Object.keys(this[plugins]): the map's keys in insertion order
  plugins,      \* this[plugins]: name -> plugin (0 when the name is absent)
  prioritized,  \* this.prioritized: the last computed order
  calls,        \* the plugin.initialize() calls the last operation made, in order
  last,         \* the last call: its arguments, the error thrown or what it returned
  found,        \* the PluginCollection the last call returned, if it was filter()
  registered,   \* per Injector: descriptor name -> the descriptor's type ("" when absent)
  instances,    \* per Injector: the cache, name -> serial of the cached instance (0 for none)
  produced,     \* per Injector: name -> how often the descriptor's producer was invoked
  collections,  \* every DependencyCollection constructed so far
  reply         \* the last Injector / DependencyCollection call and its outcome

\* The Registry and its plugins.
pvars == <<heap, keys, plugins, prioritized, calls, last, found>>

\* The Injectors and the DependencyCollections over them.
ivars == <<registered, instances, produced, collections, reply>>

vars == <<heap, keys, plugins, prioritized, calls, last, found,
          registered, instances, produced, collections, reply>>

Ids == 1 .. Len(heap)

NoLinks == [n \in Names |-> 0]

----------------------------------------------------------------------------
(* Sequence helpers (Array.prototype.splice / indexOf).                    *)

\* s with the element at 1-based position i removed: s.splice(i - 1, 1).
RemoveAt(s, i) == SubSeq(s, 1, i - 1) \o SubSeq(s, i + 1, Len(s))

\* target.indexOf(x) !== -1
Contains(s, x) == \E i \in 1 .. Len(s) : s[i] = x

\* The values of a links object: _.values(plugin.dependencies).
LinkValues(links) == {links[n] : n \in {m \in Names : links[m] # 0}}

----------------------------------------------------------------------------
(* semver.satisfies(version, range) for caret ranges.                      *)

VersionGE(v, w) ==
  \/ v[1] > w[1]
  \/ v[1] = w[1] /\ v[2] > w[2]
  \/ v[1] = w[1] /\ v[2] = w[2] /\ v[3] >= w[3]

\* ^M.m.p allows changes that do not modify the left-most non-zero element.
satisfies(version, range) ==
  /\ VersionGE(version, range.v)
  /\ IF range.v[1] > 0 THEN version[1] = range.v[1]
     ELSE IF range.v[2] > 0 THEN version[1] = 0 /\ version[2] = range.v[2]
     ELSE version = range.v

----------------------------------------------------------------------------
(* Plugin objects.                                                         *)

\* The dependency declarations a metadata object may carry: for each name at
\* most one range, listed in NameSeq order.
RECURSIVE DepListsFrom(_)
DepListsFrom(i) ==
  IF i > Len(NameSeq) THEN {<<>>}
  ELSE LET rest == DepListsFrom(i + 1)
       IN rest \cup {<<[name |-> NameSeq[i], range |-> r]>> \o t :
                        r \in Ranges, t \in rest}

\* The metadata objects that declare at most n dependencies.
MetadataUpTo(n) ==
  [version : Versions, dependencies : {l \in DepListsFrom(1) : Len(l) <= n}]

Metadata == MetadataUpTo(MaxDeps)

\* The smaller menu: metadata objects that declare one dependency fewer.
MetadataSmall == MetadataUpTo(MaxDeps - 1)

\* new Plugin(name, metadata)
NewPlugin(name, metadata) ==
  [name         |-> name,
   metadata     |-> metadata,
   dependencies |-> NoLinks,
   dependents   |-> NoLinks,
   started      |-> FALSE,
   ran          |-> FALSE]

----------------------------------------------------------------------------
(* Injectors and descriptors.                                              *)

\* The Injector instances.
Injectors == {1, 2}

\* The descriptor objects handed to register() and to the constructor of a
\* DependencyCollection, as in the example of the class comment:
\* { name: 'a', type: 'factory', factory: () => 'a' }.
Descriptors ==
  {[name |-> "a", type |-> "factory"],
   [name |-> "c", type |-> "value"]}

DescriptorNames == {d.name : d \in Descriptors}

\* The most DependencyCollection objects constructed in one behaviour.
MaxCollections == 2

\* The most descriptors handed to the constructor of a DependencyCollection.
MaxItems == 2

\* The instance the producer of the factory descriptor `name` returned when
\* Injector `by` invoked it for the serial-th time; serial 0 and by 0 stand
\* for the literal of a value descriptor.
Instance(by, name, serial) == [by |-> by, name |-> name, serial |-> serial]

\* No instance: what a call that threw has returned.
NoInstance == Instance(0, "", 0)

\* The reply of a call that has not been made.
NoReply ==
  [op |-> "", self |-> 0, args |-> <<>>, error |-> "", made |-> 0, values |-> <<>>]

\* The Injectors after construction, with no DependencyCollection yet.
InitInjectors ==
  /\ registered = [i \in Injectors |-> [n \in DescriptorNames |-> ""]]
  /\ instances = [i \in Injectors |-> [n \in DescriptorNames |-> 0]]
  /\ produced = [i \in Injectors |-> [n \in DescriptorNames |-> 0]]
  /\ collections = <<>>
  /\ reply = NoReply

----------------------------------------------------------------------------
Init ==
  /\ heap = <<>>
  /\ keys = <<>>
  /\ plugins = [n \in Names |-> 0]
  /\ prioritized = <<>>
  /\ calls = <<>>
  /\ last = [op |-> "new", args |-> <<>>, error |-> "", ret |-> 0, deleted |-> FALSE]
  /\ found = <<>>
  /\ InitInjectors

----------------------------------------------------------------------------
(* Registry.set / del / plugin: the plugin map.                            *)

\* plugin instanceof Plugin
IsPlugin(value) == value.type = "Plugin"

\* The keys of this[plugins] after this[plugins][name] = plugin: a new key
\* goes last, an existing key keeps its place.
KeysAfterSet(name) ==
  IF plugins[name] # 0 THEN keys ELSE Append(keys, name)

\* The keys of this[plugins] after delete this[plugins][name].
KeysAfterDel(name) ==
  SelectSeq(keys, LAMBDA k : k # name)

\* What `delete this[plugins][name]` evaluates to: true for an own
\* configurable property and also when there is no such property.
DelReturn(name) == TRUE

\* Mutant: set stores whatever it is given.
SetUnchecked(name, value) ==
  /\ plugins' = [plugins EXCEPT ![name] = value.id]
  /\ keys' = KeysAfterSet(name)
  /\ last' = [op |-> "set", args |-> <<name, value>>, error |-> "", ret |-> value.id,
              deleted |-> FALSE]
  /\ calls' = <<>>
  /\ found' = <<>>
  /\ UNCHANGED ivars
  /\ UNCHANGED <<heap, prioritized>>

\* set (name, plugin)
Set(name, value) ==
  IF ~IsPlugin(value)
  THEN /\ last' = [op |-> "set", args |-> <<name, value>>, error |-> "TypeMismatchError",
                   ret |-> 0, deleted |-> FALSE]
       /\ calls' = <<>>
       /\ found' = <<>>
       /\ UNCHANGED ivars
       /\ UNCHANGED <<heap, keys, plugins, prioritized>>
  ELSE /\ plugins' = [plugins EXCEPT ![name] = value.id]
       /\ keys' = KeysAfterSet(name)
       /\ last' = [op |-> "set", args |-> <<name, value>>, error |-> "", ret |-> value.id,
                   deleted |-> FALSE]
       /\ calls' = <<>>
       /\ found' = <<>>
       /\ UNCHANGED ivars
       /\ UNCHANGED <<heap, prioritized>>

\* del (name)
Del(name) ==
  /\ plugins' = [plugins EXCEPT ![name] = 0]
  /\ keys' = KeysAfterDel(name)
  /\ last' = [op |-> "del", args |-> <<name>>, error |-> "", ret |-> 0,
              deleted |-> DelReturn(name)]
  /\ calls' = <<>>
  /\ found' = <<>>
  /\ UNCHANGED ivars
  /\ UNCHANGED <<heap, prioritized>>

\* plugin (name, metadata) with metadata: this.set(name, new Plugin(name, metadata))
Plugin(name, metadata) ==
  /\ heap' = Append(heap, NewPlugin(name, metadata))
  /\ plugins' = [plugins EXCEPT ![name] = Len(heap) + 1]
  /\ keys' = KeysAfterSet(name)
  /\ last' = [op |-> "plugin", args |-> <<name, metadata>>, error |-> "", ret |-> Len(heap) + 1,
              deleted |-> FALSE]
  /\ calls' = <<>>
  /\ found' = <<>>
  /\ UNCHANGED ivars
  /\ UNCHANGED prioritized

----------------------------------------------------------------------------
(* Registry.resolve.                                                       *)

\* Mutant: the version of the dependency is not validated.
DependencyErrorNoVersion(h, dep) ==
  IF plugins[dep.name] = 0 THEN "MissingDependencyError" ELSE ""

\* The error resolve throws for the declaration dep on heap h, or "" when
\* the dependency is present in the right version.
DependencyError(h, dep) ==
  IF plugins[dep.name] = 0 THEN "MissingDependencyError"
  ELSE IF ~satisfies(h[plugins[dep.name]].metadata.version, dep.range)
       THEN "VersionMismatchError"
       ELSE ""

\* Mutant: the dependents link is stored under the dependency's own name.
LinkWrongKey(h, p, name, d) ==
  LET h1 == [h EXCEPT ![d].dependents[h[d].name] = p]
  IN  [h1 EXCEPT ![p].dependencies[name] = d]

\* dependency.dependents[plugin.name] = plugin, then
\* plugin.dependencies[name] = dependency
Link(h, p, name, d) ==
  LET h1 == [h EXCEPT ![d].dependents[h[p].name] = p]
  IN  [h1 EXCEPT ![p].dependencies[name] = d]

\* Mutant: a failing declaration is skipped and reported when the loop is over.
RECURSIVE ResolveDependenciesLate(_, _, _)
ResolveDependenciesLate(h, p, i) ==
  LET deps == h[p].metadata.dependencies
  IN  IF i > Len(deps) THEN [heap |-> h, error |-> ""]
      ELSE LET err == DependencyError(h, deps[i])
           IN  IF err # ""
               THEN [heap |-> ResolveDependenciesLate(h, p, i + 1).heap, error |-> err]
               ELSE ResolveDependenciesLate(
                      Link(h, p, deps[i].name, plugins[deps[i].name]), p, i + 1)

\* Object.keys(dependencies).forEach from the i-th declaration of plugin p on:
\* the heap when the loop ends, and the error that ended it ("" for none).
RECURSIVE ResolveDependencies(_, _, _)
ResolveDependencies(h, p, i) ==
  LET deps == h[p].metadata.dependencies
  IN  IF i > Len(deps) THEN [heap |-> h, error |-> ""]
      ELSE LET err == DependencyError(h, deps[i])
           IN  IF err # "" THEN [heap |-> h, error |-> err]
               ELSE ResolveDependencies(
                      Link(h, p, deps[i].name, plugins[deps[i].name]), p, i + 1)

\* Object.keys(this[plugins]).forEach from the k-th key on.
RECURSIVE ResolvePlugins(_, _)
ResolvePlugins(h, k) ==
  IF k > Len(keys) THEN [heap |-> h, error |-> ""]
  ELSE LET r == ResolveDependencies(h, plugins[keys[k]], 1)
       IN  IF r.error # "" THEN r ELSE ResolvePlugins(r.heap, k + 1)

\* resolve ()
Resolve ==
  LET r == ResolvePlugins(heap, 1)
  IN  /\ heap' = r.heap
      /\ last' = [op |-> "resolve", args |-> <<>>, error |-> r.error, ret |-> 0,
                  deleted |-> FALSE]
      /\ calls' = <<>>
      /\ found' = <<>>
      /\ UNCHANGED ivars
      /\ UNCHANGED <<keys, plugins, prioritized>>

----------------------------------------------------------------------------
(* Registry.satisfy / prioritize.                                          *)

\* How many nested satisfy calls the engine's call stack holds before it
\* throws RangeError.  Every pass that makes progress removes a plugin, so
\* an ordering that exists is found in at most Cardinality(Names) calls.
StackLimit == Cardinality(Names) + 2

\* !plugin.dependencies || Object.keys(plugin.dependencies).length === 0
NoDependencies(p) == LinkValues(heap[p].dependencies) = {}

\* Mutant: dependencies.some in place of dependencies.every.
IsSatisfiedSome(target, p) ==
  \/ LinkValues(heap[p].dependencies) = {}
  \/ \E d \in LinkValues(heap[p].dependencies) : Contains(target, d)

\* dependencies.every(dependency => target.indexOf(dependency) !== -1)
IsSatisfied(target, p) ==
  \A d \in LinkValues(heap[p].dependencies) : Contains(target, d)

\* Mutant: the seeding loop pushes the plugin but leaves it in remaining.
RECURSIVE SeedNoSplice(_, _, _, _)
SeedNoSplice(ordered, remaining, i, len) ==
  IF i > len THEN [ordered |-> ordered, remaining |-> remaining]
  ELSE IF NoDependencies(remaining[i])
       THEN SeedNoSplice(Append(ordered, remaining[i]), remaining, i + 1, len)
       ELSE SeedNoSplice(ordered, remaining, i + 1, len)

\* remaining.forEach of prioritize, from 1-based index i on.  forEach visits
\* the indices below the length the array had when the loop began (len) and
\* skips an index the array no longer has; splice shifts the later elements
\* down while the index moves on.
RECURSIVE Seed(_, _, _, _)
Seed(ordered, remaining, i, len) ==
  IF i > len THEN [ordered |-> ordered, remaining |-> remaining]
  ELSE IF i > Len(remaining) THEN Seed(ordered, remaining, i + 1, len)
  ELSE IF NoDependencies(remaining[i])
       THEN Seed(Append(ordered, remaining[i]), RemoveAt(remaining, i), i + 1, len)
       ELSE Seed(ordered, remaining, i + 1, len)

\* source.forEach of satisfy, from 1-based index i on.
RECURSIVE SatisfyPass(_, _, _, _)
SatisfyPass(target, source, i, len) ==
  IF i > len THEN [target |-> target, source |-> source]
  ELSE IF i > Len(source) THEN SatisfyPass(target, source, i + 1, len)
  ELSE IF IsSatisfied(target, source[i])
       THEN SatisfyPass(Append(target, source[i]), RemoveAt(source, i), i + 1, len)
       ELSE SatisfyPass(target, source, i + 1, len)

\* satisfy (ordered, remaining), called at nesting depth `depth`.
RECURSIVE satisfy(_, _, _)
satisfy(ordered, remaining, depth) ==
  IF depth > StackLimit THEN [error |-> "RangeError", order |-> <<>>]
  ELSE LET r == SatisfyPass(ordered, remaining, 1, Len(remaining))
       IN  IF Len(r.source) = 0 THEN [error |-> "", order |-> r.target]
           ELSE satisfy(r.target, r.source, depth + 1)

\* _.values(this[plugins])
PluginValues == [i \in 1 .. Len(keys) |-> plugins[keys[i]]]

\* The outcome of prioritize's computation in the current state.
PrioritizeResult ==
  LET s == Seed(<<>>, PluginValues, 1, Len(PluginValues))
  IN  satisfy(s.ordered, s.remaining, 1)

\* Mutant: prioritized is emptied before the order is computed.
PrioritizeClearing ==
  LET r == PrioritizeResult
  IN  /\ prioritized' = IF r.error = "" THEN r.order ELSE <<>>
      /\ last' = [op |-> "prioritize", args |-> <<>>, error |-> r.error, ret |-> 0,
                  deleted |-> FALSE]
      /\ calls' = <<>>
      /\ found' = <<>>
      /\ UNCHANGED ivars
      /\ UNCHANGED <<heap, keys, plugins>>

\* prioritize ()
Prioritize ==
  LET r == PrioritizeResult
  IN  /\ prioritized' = IF r.error = "" THEN r.order ELSE prioritized
      /\ last' = [op |-> "prioritize", args |-> <<>>, error |-> r.error, ret |-> 0,
                  deleted |-> FALSE]
      /\ calls' = <<>>
      /\ found' = <<>>
      /\ UNCHANGED ivars
      /\ UNCHANGED <<heap, keys, plugins>>

----------------------------------------------------------------------------
(* Plugin.initialize and Registry.initialize.                              *)

\* Mutant: initialize() does not look at the started flag.
PluginInitializeUnguarded(plug, throws) ==
  IF throws
  THEN [plugin |-> [plug EXCEPT !.ran = TRUE], error |-> "InitializerError"]
  ELSE [plugin |-> [plug EXCEPT !.ran = TRUE, !.started = TRUE], error |-> ""]

\* plugin.initialize() on the plugin object plug, whose callback throws iff
\* `throws`: the plugin afterwards and the error thrown ("" for none).
PluginInitialize(plug, throws) ==
  IF plug.started
  THEN [plugin |-> plug, error |-> "AlreadyStartedError"]
  ELSE IF throws
       THEN [plugin |-> [plug EXCEPT !.ran = TRUE],
             error  |-> "InitializerError"]
       ELSE [plugin |-> [plug EXCEPT !.ran = TRUE, !.started = TRUE],
             error  |-> ""]

\* Mutant: the loop walks prioritized from its end.
RECURSIVE InitializeFromEnd(_, _, _, _)
InitializeFromEnd(h, i, throwing, trace) ==
  IF i > Len(prioritized) THEN [heap |-> h, calls |-> trace, error |-> ""]
  ELSE LET p == prioritized[Len(prioritized) + 1 - i]
           r == PluginInitialize(h[p], p \in throwing)
           t == Append(trace, [plugin |-> p, error |-> r.error])
           g == [h EXCEPT ![p] = r.plugin]
       IN  IF r.error # "" THEN [heap |-> g, calls |-> t, error |-> r.error]
           ELSE InitializeFromEnd(g, i + 1, throwing, t)

\* this.prioritized.forEach(plugin => plugin.initialize()) from position i on;
\* an error thrown by a plugin ends the loop.
RECURSIVE InitializeFrom(_, _, _, _)
InitializeFrom(h, i, throwing, trace) ==
  IF i > Len(prioritized) THEN [heap |-> h, calls |-> trace, error |-> ""]
  ELSE LET p == prioritized[i]
           r == PluginInitialize(h[p], p \in throwing)
           t == Append(trace, [plugin |-> p, error |-> r.error])
           g == [h EXCEPT ![p] = r.plugin]
       IN  IF r.error # "" THEN [heap |-> g, calls |-> t, error |-> r.error]
           ELSE InitializeFrom(g, i + 1, throwing, t)

\* initialize (), with the callbacks of the plugins in `throwing` throwing
Initialize(throwing) ==
  LET r == InitializeFrom(heap, 1, throwing, <<>>)
  IN  /\ heap' = r.heap
      /\ calls' = r.calls
      /\ found' = <<>>
      /\ UNCHANGED ivars
      /\ last' = [op |-> "initialize", args |-> <<>>, error |-> r.error, ret |-> 0,
                  deleted |-> FALSE]
      /\ UNCHANGED <<keys, plugins, prioritized>>

----------------------------------------------------------------------------
(* Predicates and filter: _.filter(collection, predicate).                 *)

\* An object predicate, given by its key/value pairs.
ObjectPredicate(pairs) == [kind |-> "object", pairs |-> pairs, fn |-> ""]

\* A function predicate, given by the name of the function.
FunctionPredicate(fn) == [kind |-> "function", pairs |-> {}, fn |-> fn]

\* The function predicates callers pass: what fn(item) evaluates to.
Call(fn, item) ==
  CASE fn = "notFactory"      -> item.type # "factory"
    [] fn = "hasDependencies" -> LinkValues(item.dependencies) # {}
    [] fn = "isStarted"       -> item.started

\* Whether _.filter keeps item: every key/value pair of an object predicate
\* equals the item's field, or the function predicate returns true.
Matches(item, predicate) ==
  IF predicate.kind = "object"
  THEN \A kv \in predicate.pairs : item[kv[1]] = kv[2]
  ELSE Call(predicate.fn, item)

\* The predicates over plugins.
PluginPredicates ==
  {ObjectPredicate({}), ObjectPredicate({<<"name", "a">>}),
   FunctionPredicate("hasDependencies"), FunctionPredicate("isStarted")}

\* collection.filter(predicate) on a PluginCollection: the plugins of the
\* collection that match, in the order of the collection.
PluginCollectionFilter(collection, predicate) ==
  SelectSeq(collection, LAMBDA p : Matches(heap[p], predicate))

\* Mutant: filter queries the plugin map.
FilterMap(predicate) ==
  /\ found' = PluginCollectionFilter(PluginValues, predicate)
  /\ last' = [op |-> "filter", args |-> <<predicate>>, error |-> "", ret |-> 0,
              deleted |-> FALSE]
  /\ calls' = <<>>
  /\ UNCHANGED <<heap, keys, plugins, prioritized>>
  /\ UNCHANGED ivars

\* filter (predicate)
Filter(predicate) ==
  /\ found' = PluginCollectionFilter(prioritized, predicate)
  /\ last' = [op |-> "filter", args |-> <<predicate>>, error |-> "", ret |-> 0,
              deleted |-> FALSE]
  /\ calls' = <<>>
  /\ UNCHANGED <<heap, keys, plugins, prioritized>>
  /\ UNCHANGED ivars

----------------------------------------------------------------------------
PrioritizedSet == {prioritized[i] : i \in 1 .. Len(prioritized)}

\* The whole API on a registry that starts empty; no callback throws.
Next ==
  \/ \E n \in Names, m \in MetadataSmall : Len(heap) < MaxPlugins /\ Plugin(n, m)
  \/ \E n \in Names :
       \E v \in {NotAPlugin} \cup {PluginValue(i) : i \in {j \in Ids : heap[j].name = n}} :
         Set(n, v)
  \/ \E n \in Names : Del(n)
  \/ Resolve
  \/ Prioritize
  \/ Initialize({})

Spec == Init /\ [][Next]_vars

----------------------------------------------------------------------------
(* The bootstrap pipeline on a registry the load phase has filled.         *)

\* The sequences of distinct names: the orders in which the load phase may
\* have registered its plugins.
KeySeqs ==
  {ks \in UNION {[1 .. n -> Names] : n \in 0 .. Cardinality(Names)} :
     \A i, j \in 1 .. Len(ks) : i # j => ks[i] # ks[j]}

\* The registry after registry.plugin(ks[i], ms[i]) for i = 1, 2, ..., with
\* the metadata objects drawn from menu.
InitLoaded(menu) ==
  \E ks \in KeySeqs : \E ms \in [1 .. Len(ks) -> menu] :
    /\ heap = [i \in 1 .. Len(ks) |-> NewPlugin(ks[i], ms[i])]
    /\ keys = ks
    /\ plugins = [n \in Names |->
                    IF \E i \in 1 .. Len(ks) : ks[i] = n
                    THEN CHOOSE i \in 1 .. Len(ks) : ks[i] = n ELSE 0]
    /\ prioritized = <<>>
    /\ calls = <<>>
    /\ last = [op |-> "load", args |-> <<>>, error |-> "", ret |-> 0, deleted |-> FALSE]
    /\ found = <<>>
    /\ InitInjectors

\* resolve() and prioritize(), in any order and any number of times.
NextResolve ==
  \/ Resolve
  \/ Prioritize

SpecResolve == InitLoaded(Metadata) /\ [][NextResolve]_vars

\* The whole pipeline; the callbacks of any of the plugins may throw.
NextInitialize ==
  \/ Resolve
  \/ Prioritize
  \/ \E throwing \in SUBSET PrioritizedSet : Initialize(throwing)

SpecInitialize == InitLoaded(MetadataSmall) /\ [][NextInitialize]_vars

\* The most Plugin objects constructed where plugins are registered anew.
MaxObjects == MaxPlugins + 1

\* The metadata objects of one version that declare at most one dependency.
MetadataCompatible == {m \in MetadataSmall : m.version = <<1, 0, 0>>}

\* Plugins being registered, replaced by a new plugin of the same name and
\* put back, with resolve() in between.
NextReregister ==
  \/ \E n \in Names, m \in MetadataCompatible : Len(heap) < MaxObjects /\ Plugin(n, m)
  \/ \E n \in Names :
       \E i \in {j \in Ids : heap[j].name = n} : Set(n, PluginValue(i))
  \/ Resolve

SpecReregister == Init /\ [][NextReregister]_vars

----------------------------------------------------------------------------
(* Injector.register / get.                                                *)

\* injector.register(descriptor) on Injector i
Register(i, descriptor) ==
  /\ IF registered[i][descriptor.name] # ""
     THEN /\ reply' = [NoReply EXCEPT !.op = "register", !.self = i,
                                      !.args = <<descriptor>>,
                                      !.error = "DuplicateDescriptorError"]
          /\ UNCHANGED registered
     ELSE /\ registered' = [registered EXCEPT ![i][descriptor.name] = descriptor.type]
          /\ reply' = [NoReply EXCEPT !.op = "register", !.self = i,
                                      !.args = <<descriptor>>]
  /\ UNCHANGED <<instances, produced, collections>>
  /\ UNCHANGED pvars

\* Mutant: get invokes the producer of a factory descriptor on every call.
InjectorGetUncached(s, i, name) ==
  IF registered[i][name] = ""
  THEN [state |-> s, error |-> "UnresolvedNameError", value |-> NoInstance]
  ELSE IF registered[i][name] # "factory"
  THEN [state |-> s, error |-> "", value |-> Instance(0, name, 0)]
  ELSE LET n == s.produced[i][name] + 1
       IN  [state |-> [instances |-> [s.instances EXCEPT ![i][name] = n],
                       produced  |-> [s.produced EXCEPT ![i][name] = n]],
            error |-> "", value |-> Instance(i, name, n)]

\* injector.get(name) on Injector i whose cache and producer counts are s:
\* the cache and counts afterwards, the error thrown ("" for none) and the
\* instance returned.
InjectorGet(s, i, name) ==
  IF registered[i][name] = ""
  THEN [state |-> s, error |-> "UnresolvedNameError", value |-> NoInstance]
  ELSE IF registered[i][name] # "factory"
  THEN [state |-> s, error |-> "", value |-> Instance(0, name, 0)]
  ELSE IF s.instances[i][name] # 0
  THEN [state |-> s, error |-> "", value |-> Instance(i, name, s.instances[i][name])]
  ELSE LET n == s.produced[i][name] + 1
       IN  [state |-> [instances |-> [s.instances EXCEPT ![i][name] = n],
                       produced  |-> [s.produced EXCEPT ![i][name] = n]],
            error |-> "", value |-> Instance(i, name, n)]

\* The cache and the producer counts of the Injectors now.
Resolutions == [instances |-> instances, produced |-> produced]

\* injector.get(name) on Injector i
Get(i, name) ==
  LET r == InjectorGet(Resolutions, i, name)
  IN  /\ instances' = r.state.instances
      /\ produced' = r.state.produced
      /\ reply' = [NoReply EXCEPT !.op = "get", !.self = i, !.args = <<name>>,
                                  !.error = r.error,
                                  !.values = IF r.error = "" THEN <<r.value>> ELSE <<>>]
      /\ UNCHANGED <<registered, collections>>
      /\ UNCHANGED pvars

----------------------------------------------------------------------------
(* DependencyCollection.                                                   *)

\* The collections of descriptors handed to the constructor: _.values of
\* them, in order.
ItemLists == UNION {[1 .. n -> Descriptors] : n \in 0 .. MaxItems}

\* The predicates over descriptors.
DescriptorPredicates ==
  {ObjectPredicate({<<"type", "factory">>}), ObjectPredicate({<<"name", "c">>}),
   FunctionPredicate("notFactory")}

\* new DependencyCollection(collection, _injector): the array filled by
\* pushing the values of collection one by one, and the injector it holds.
RECURSIVE PushAll(_, _, _)
PushAll(array, values, k) ==
  IF k > Len(values) THEN array ELSE PushAll(Append(array, values[k]), values, k + 1)

DependencyCollection(collection, _injector) ==
  [items |-> PushAll(<<>>, collection, 1), injector |-> _injector]

\* Mutant: _.reject in place of _.filter.
LodashReject(array, predicate) ==
  SelectSeq(array, LAMBDA item : ~Matches(item, predicate))

\* _.filter(array, predicate): a new array of the elements that match.
LodashFilter(array, predicate) ==
  SelectSeq(array, LAMBDA item : Matches(item, predicate))

\* new DependencyCollection(collection, injector)
Construct(collection, i) ==
  /\ Len(collections) < MaxCollections
  /\ collections' = Append(collections, DependencyCollection(collection, i))
  /\ reply' = [NoReply EXCEPT !.op = "new", !.args = <<collection, i>>,
                              !.made = Len(collections) + 1]
  /\ UNCHANGED <<registered, instances, produced>>
  /\ UNCHANGED pvars

\* Mutant: filter resolves the descriptors it keeps.
RECURSIVE ResolveAll(_, _, _, _)
ResolveAll(s, i, items, k) ==
  IF k > Len(items) THEN s
  ELSE ResolveAll(InjectorGet(s, i, items[k].name).state, i, items, k + 1)

CollectionFilterEager(c, predicate) ==
  LET kept == LodashFilter(collections[c].items, predicate)
      s    == ResolveAll(Resolutions, collections[c].injector, kept, 1)
  IN  /\ Len(collections) < MaxCollections
      /\ collections' =
           Append(collections, DependencyCollection(kept, collections[c].injector))
      /\ reply' = [NoReply EXCEPT !.op = "filter", !.self = c, !.args = <<predicate>>,
                                  !.made = Len(collections) + 1]
      /\ instances' = s.instances
      /\ produced' = s.produced
      /\ UNCHANGED registered
      /\ UNCHANGED pvars

\* filter (predicate) on the c-th DependencyCollection
CollectionFilter(c, predicate) ==
  /\ Len(collections) < MaxCollections
  /\ collections' =
       Append(collections,
              DependencyCollection(LodashFilter(collections[c].items, predicate),
                                   collections[c].injector))
  /\ reply' = [NoReply EXCEPT !.op = "filter", !.self = c, !.args = <<predicate>>,
                              !.made = Len(collections) + 1]
  /\ UNCHANGED <<registered, instances, produced>>
  /\ UNCHANGED pvars

\* Mutant: a descriptor the injector cannot resolve is left out.
RECURSIVE ValuesSwallow(_, _, _, _)
ValuesSwallow(s, c, k, out) ==
  IF k > Len(collections[c].items) THEN [state |-> s, error |-> "", values |-> out]
  ELSE LET r == InjectorGet(s, collections[c].injector, collections[c].items[k].name)
       IN  IF r.error # "" THEN ValuesSwallow(r.state, c, k + 1, out)
           ELSE ValuesSwallow(r.state, c, k + 1, Append(out, r.value))

\* this.map(descriptor => this[injector].get(descriptor.name)) from the k-th
\* descriptor on; an error thrown by get ends the loop.
RECURSIVE ValuesFrom(_, _, _, _)
ValuesFrom(s, c, k, out) ==
  IF k > Len(collections[c].items) THEN [state |-> s, error |-> "", values |-> out]
  ELSE LET r == InjectorGet(s, collections[c].injector, collections[c].items[k].name)
       IN  IF r.error # "" THEN [state |-> r.state, error |-> r.error, values |-> <<>>]
           ELSE ValuesFrom(r.state, c, k + 1, Append(out, r.value))

\* values () on the c-th DependencyCollection
Values(c) ==
  LET r == ValuesFrom(Resolutions, c, 1, <<>>)
  IN  /\ instances' = r.state.instances
      /\ produced' = r.state.produced
      /\ reply' = [NoReply EXCEPT !.op = "values", !.self = c, !.error = r.error,
                                  !.values = r.values]
      /\ UNCHANGED <<registered, collections>>
      /\ UNCHANGED pvars

\* Injectors being filled and asked, and DependencyCollections over them
\* being constructed, narrowed and resolved.
NextInjector ==
  \/ \E i \in Injectors, d \in Descriptors : Register(i, d)
  \/ \E i \in Injectors, n \in DescriptorNames : Get(i, n)
  \/ \E items \in ItemLists, i \in Injectors : Construct(items, i)
  \/ \E c \in 1 .. Len(collections), predicate \in DescriptorPredicates :
       CollectionFilter(c, predicate)
  \/ \E c \in 1 .. Len(collections) : Values(c)

SpecInjector == Init /\ [][NextInjector]_vars

\* Registrations, removals and the ordering steps on a registry that starts
\* empty, with queries in between.
NextQuery ==
  \/ \E n \in Names, m \in MetadataSmall : Len(heap) < MaxPlugins /\ Plugin(n, m)
  \/ \E n \in Names : Del(n)
  \/ Resolve
  \/ Prioritize
  \/ \E predicate \in PluginPredicates : Filter(predicate)

SpecQuery == Init /\ [][NextQuery]_vars

----------------------------------------------------------------------------
(* Vocabulary of the properties.                                           *)

\* The plugins registered now.
Registered == {plugins[n] : n \in {m \in Names : plugins[m] # 0}}

\* The plugins p is linked to as its dependencies.
Deps(p) == LinkValues(heap[p].dependencies)

\* The positions of plugin p in the sequence s.
Positions(s, p) == {i \in 1 .. Len(s) : s[i] = p}

\* Every declared dependency of every registered plugin is registered in a
\* satisfying version and linked both ways: what a successful resolve() leaves.
Resolved ==
  \A p \in Registered :
    \A j \in 1 .. Len(heap[p].metadata.dependencies) :
      LET dep == heap[p].metadata.dependencies[j]
          d   == plugins[dep.name]
      IN  /\ d # 0
          /\ satisfies(heap[d].metadata.version, dep.range)
          /\ heap[p].dependencies[dep.name] = d
          /\ heap[d].dependents[heap[p].name] = p

\* The plugins reachable from the set S along dependency links in at most n
\* steps.
RECURSIVE ReachN(_, _)
ReachN(S, n) ==
  IF n = 0 THEN S ELSE ReachN(S \cup UNION {Deps(q) : q \in S}, n - 1)

\* Some registered plugin depends on itself, directly or through others.
Cyclic == \E p \in Registered : p \in ReachN(Deps(p), Len(heap))

\* In the sequence s every plugin comes after all of its dependencies.
DependenciesFirst(s) ==
  \A i \in 1 .. Len(s) :
    \A d \in Deps(s[i]) : \E j \in 1 .. i - 1 : s[j] = d

----------------------------------------------------------------------------
(* C1: on an acyclic set of registered plugins that resolve() has linked,  *)
(* prioritize() succeeds, and in the order any successful prioritize()     *)
(* yields every dependency Q of every plugin P stands at a strictly        *)
(* smaller index than P.                                                   *)
C1_DependenciesPrecede ==
  last.op = "prioritize" =>
    /\ (Resolved /\ ~Cyclic) => last.error = ""
    /\ last.error = "" => DependenciesFirst(prioritized)

\* prioritize() has ordered a resolved chain of three plugins that were
\* registered in another order.
C1_Witness ==
  /\ last.op = "prioritize" /\ last.error = ""
  /\ Resolved /\ ~Cyclic
  /\ Len(prioritized) = Cardinality(Names)
  /\ prioritized # PluginValues
  /\ \E p, q \in Registered : q \in Deps(p) /\ Deps(q) # {}

----------------------------------------------------------------------------
(* C2: when the linked dependency graph of the registered plugins contains *)
(* a cycle, prioritize() ends by throwing CyclicDependencyError.           *)
C2_CycleFailsExplicitly ==
  (last.op = "prioritize" /\ Resolved /\ Cyclic) =>
    last.error = "CyclicDependencyError"

----------------------------------------------------------------------------
\* How often plugin p occurs in the sequence s.
Count(s, p) == Cardinality(Positions(s, p))

(* C3: after a successful prioritize(), prioritized is a permutation of    *)
(* the registered plugins: every registered plugin occurs in it exactly    *)
(* once and nothing else occurs in it.                                     *)
C3_Permutation ==
  (last.op = "prioritize" /\ last.error = "") =>
    /\ Len(prioritized) = Len(PluginValues)
    /\ \A p \in Ids : Count(prioritized, p) = Count(PluginValues, p)
    /\ \A p \in Registered : Count(prioritized, p) = 1

\* prioritize() has ordered three plugins of which the seeding loop skipped
\* one (the plugin without dependencies that follows another one) and which
\* satisfy needed more than one pass for.
C3_Witness ==
  /\ last.op = "prioritize" /\ last.error = ""
  /\ Len(prioritized) = Cardinality(Names)
  /\ Len(Seed(<<>>, PluginValues, 1, Len(PluginValues)).ordered) = 1
  /\ Cardinality({p \in Registered : Deps(p) = {}}) = 2
  /\ \E p \in Registered : Deps(p) # {}

----------------------------------------------------------------------------
(* C4: after a successful resolve(), for every registered plugin P and     *)
(* every name D that P.metadata.dependencies declares, P.dependencies[D]   *)
(* is the plugin registered under D and that plugin's dependents[P.name]   *)
(* is P.                                                                   *)
C4_LinkedBothWays ==
  (last.op = "resolve" /\ last.error = "") =>
    \A p \in Registered :
      \A j \in 1 .. Len(heap[p].metadata.dependencies) :
        LET D == heap[p].metadata.dependencies[j].name
        IN  /\ plugins[D] # 0
            /\ heap[p].dependencies[D] = plugins[D]
            /\ heap[plugins[D]].dependents[heap[p].name] = p

\* resolve() has succeeded on a registry in which one plugin declares two
\* dependencies and another plugin depends on it.
C4_Witness ==
  /\ last.op = "resolve" /\ last.error = ""
  /\ \E p, q \in Registered :
       /\ Len(heap[p].metadata.dependencies) = 2
       /\ p # q
       /\ heap[q].dependencies[heap[p].name] = p

----------------------------------------------------------------------------
(* Vocabulary of the properties of resolve().                              *)

\* The j-th dependency declaration of plugin p.
Declaration(p, j) == heap[p].metadata.dependencies[j]

Declarations(p) == 1 .. Len(heap[p].metadata.dependencies)

\* p's j-th declaration names a plugin that is not registered.
MissingAt(p, j) == plugins[Declaration(p, j).name] = 0

\* p's j-th declaration names a registered plugin in a version outside the
\* declared range.
MismatchAt(p, j) ==
  /\ plugins[Declaration(p, j).name] # 0
  /\ ~satisfies(heap[plugins[Declaration(p, j).name]].metadata.version,
                Declaration(p, j).range)

\* The place of the registered plugin p among the keys of the map.
KeyIndex(p) == CHOOSE k \in 1 .. Len(keys) : plugins[keys[k]] = p

\* resolve() comes to q's j-th declaration before p's i-th.
Before(q, j, p, i) ==
  \/ KeyIndex(q) < KeyIndex(p)
  \/ q = p /\ j < i

\* p's i-th declaration is the first one that fails a check of resolve().
FirstFailure(p, i) ==
  /\ MissingAt(p, i) \/ MismatchAt(p, i)
  /\ \A q \in Registered : \A j \in Declarations(q) :
       Before(q, j, p, i) => ~(MissingAt(q, j) \/ MismatchAt(q, j))

\* The step links neither p to what its j-th declaration names nor back.
NotLinkedByStep(p, j) ==
  LET D == Declaration(p, j).name
  IN  /\ heap'[p].dependencies[D] = heap[p].dependencies[D]
      /\ plugins[D] # 0 =>
           heap'[plugins[D]].dependents[heap[p].name] =
             heap[plugins[D]].dependents[heap[p].name]

\* After the step p and what its j-th declaration names are linked both ways.
LinkedAfterStep(p, j) ==
  LET D == Declaration(p, j).name
  IN  /\ heap'[p].dependencies[D] = plugins[D]
      /\ heap'[plugins[D]].dependents[heap[p].name] = p

----------------------------------------------------------------------------
(* C5 as stated: if a registered plugin A declares a dependency on a name  *)
(* that is not registered, resolve() fails with MissingDependencyError and *)
(* creates no dependency link for A at all: A.dependencies gains no entry  *)
(* and no plugin gains A in its dependents.                                *)
C5_NoLinkForA ==
  [][last'.op = "resolve" =>
       \A p \in Registered :
         (\E i \in Declarations(p) : MissingAt(p, i)) =>
           /\ last'.error = "MissingDependencyError"
           /\ heap'[p].dependencies = heap[p].dependencies
           /\ \A q \in Ids :
                heap'[q].dependents[heap[p].name] = heap[q].dependents[heap[p].name]
    ]_vars

(* C5 as amended: if a registered plugin A declares a dependency on a name *)
(* that is not registered, resolve() fails, with MissingDependencyError    *)
(* unless a declaration it comes to earlier fails the version check, and   *)
(* creates no link for the missing name nor for any dependency A declares  *)
(* after it; when the missing name is the first failure, the dependencies  *)
(* A declares before it are linked and stay linked.                        *)
C5_NoLinkFromMissingOn ==
  [][last'.op = "resolve" =>
       \A p \in Registered : \A i \in Declarations(p) :
         MissingAt(p, i) =>
           /\ \/ last'.error = "MissingDependencyError"
              \/ /\ last'.error = "VersionMismatchError"
                 /\ \E q \in Registered : \E j \in Declarations(q) :
                      Before(q, j, p, i) /\ MismatchAt(q, j)
           /\ \A j \in Declarations(p) : j >= i => NotLinkedByStep(p, j)
           /\ FirstFailure(p, i) =>
                /\ last'.error = "MissingDependencyError"
                /\ \A j \in Declarations(p) : j < i => LinkedAfterStep(p, j)
    ]_vars

\* resolve() has failed on the second declaration of a plugin, which names
\* an unregistered plugin, after linking the plugin to its first dependency.
C5_Witness ==
  /\ last.op = "resolve" /\ last.error = "MissingDependencyError"
  /\ \E p \in Registered :
       /\ Len(heap[p].metadata.dependencies) = 2
       /\ MissingAt(p, 2)
       /\ heap[p].dependencies[Declaration(p, 1).name] = plugins[Declaration(p, 1).name]
       /\ plugins[Declaration(p, 1).name] # 0
       /\ heap[p].dependencies[Declaration(p, 2).name] = 0

----------------------------------------------------------------------------
(* C6 as stated: if a registered plugin A declares a dependency on a       *)
(* registered plugin B (here: another plugin) whose version is outside the *)
(* declared range, resolve() fails with VersionMismatchError and does not  *)
(* link the pair.                                                          *)
C6_MismatchError ==
  [][last'.op = "resolve" =>
       \A p \in Registered : \A i \in Declarations(p) :
         (MismatchAt(p, i) /\ plugins[Declaration(p, i).name] # p) =>
           /\ last'.error = "VersionMismatchError"
           /\ NotLinkedByStep(p, i)
    ]_vars

(* C6 as amended: in that case resolve() fails, with VersionMismatchError  *)
(* unless a declaration it comes to earlier names an unregistered plugin   *)
(* (then with MissingDependencyError), and does not link the pair.         *)
C6_MismatchNotLinked ==
  [][last'.op = "resolve" =>
       \A p \in Registered : \A i \in Declarations(p) :
         MismatchAt(p, i) =>
           /\ \/ last'.error = "VersionMismatchError"
              \/ /\ last'.error = "MissingDependencyError"
                 /\ \E q \in Registered : \E j \in Declarations(q) :
                      Before(q, j, p, i) /\ MissingAt(q, j)
           /\ FirstFailure(p, i) => last'.error = "VersionMismatchError"
           /\ NotLinkedByStep(p, i)
    ]_vars

\* resolve() has failed with VersionMismatchError on a declaration of a
\* registered plugin and has left the pair unlinked.
C6_Witness ==
  /\ last.op = "resolve" /\ last.error = "VersionMismatchError"
  /\ \E p \in Registered : \E i \in Declarations(p) :
       /\ MismatchAt(p, i)
       /\ p # plugins[Declaration(p, i).name]
       /\ heap[p].dependencies[Declaration(p, i).name] = 0
       /\ heap[plugins[Declaration(p, i).name]].dependents[heap[p].name] = 0

----------------------------------------------------------------------------
\* resolve() and then prioritize() have succeeded on the registered plugins:
\* everything is linked and prioritized is the order of those links.
Bootstrapped ==
  /\ Resolved
  /\ PrioritizeResult.error = ""
  /\ prioritized = PrioritizeResult.order

AlreadyStarted == "AlreadyStartedError"

(* C7: Registry.initialize() calls plugin.initialize() on the plugins one  *)
(* after the other in prioritized order and stops at the first error, so   *)
(* after resolve(); prioritize() the initializer of every dependency of a  *)
(* plugin P has completed before the initializer of P starts.              *)
C7_InitializedInOrder ==
  last.op = "initialize" =>
    /\ Len(calls) <= Len(prioritized)
    /\ \A i \in 1 .. Len(calls) :
         /\ calls[i].plugin = prioritized[i]
         /\ i < Len(calls) => calls[i].error = ""
    /\ IF last.error = "" THEN Len(calls) = Len(prioritized)
       ELSE calls # <<>> /\ calls[Len(calls)].error = last.error
    /\ Bootstrapped =>
         \A i \in 1 .. Len(calls) :
           calls[i].error # AlreadyStarted =>
             \A d \in Deps(calls[i].plugin) :
               \E j \in 1 .. i - 1 : calls[j].plugin = d /\ calls[j].error = ""

\* initialize() has run the initializers of a resolved and prioritized chain
\* of three plugins that were registered in another order.
C7_Witness ==
  /\ last.op = "initialize" /\ last.error = ""
  /\ Bootstrapped
  /\ Len(calls) = Cardinality(Names)
  /\ prioritized # PluginValues
  /\ \E p, q \in Registered : q \in Deps(p) /\ Deps(q) # {}

----------------------------------------------------------------------------
----------------------------------------------------------------------------
(* C9: del(name) for a name that is not registered returns false and       *)
(* changes neither the plugin map nor prioritized.                         *)
C9_DelAbsentReturnsFalse ==
  [][(last'.op = "del" /\ plugins[last'.args[1]] = 0) =>
       /\ last'.deleted = FALSE
       /\ plugins' = plugins
       /\ keys' = keys
       /\ prioritized' = prioritized
    ]_vars

----------------------------------------------------------------------------
(* C10: set(name, value) with a value that is not a Plugin fails with      *)
(* TypeMismatchError and leaves the plugin map as it was; with a Plugin it *)
(* stores the plugin under name, leaves the other names alone and returns  *)
(* that plugin.                                                            *)
C10_SetChecksType ==
  [][last'.op = "set" =>
       LET name  == last'.args[1]
           value == last'.args[2]
       IN  IF value.type # "Plugin"
           THEN /\ last'.error = "TypeMismatchError"
                /\ plugins' = plugins
                /\ keys' = keys
           ELSE /\ last'.error = ""
                /\ plugins'[name] = value.id
                /\ last'.ret = value.id
                /\ \A n \in Names \ {name} : plugins'[n] = plugins[n]
                /\ \A i \in 1 .. Len(keys') : plugins'[keys'[i]] # 0
    ]_vars

\* set() has refused a value that is not a Plugin for a name that keeps the
\* plugin it had.
C10_Witness ==
  /\ last.op = "set" /\ last.error = "TypeMismatchError"
  /\ plugins[last.args[1]] # 0

----------------------------------------------------------------------------
\* The sequence t holds exactly the elements of s that satisfy Keep(_), each
\* once, in the order they have in s (s has no element twice).
OrderedSelection(t, s, Keep(_)) ==
  /\ \A i \in 1 .. Len(t) : Contains(s, t[i]) /\ Keep(t[i])
  /\ \A i \in 1 .. Len(s) : Keep(s[i]) => Count(t, s[i]) = 1
  /\ \A i, j \in 1 .. Len(t) :
       i < j => \E k, l \in 1 .. Len(s) : k < l /\ s[k] = t[i] /\ s[l] = t[j]

(* C11: prioritized is empty at construction and only prioritize() changes *)
(* it, and filter(predicate) returns the plugins of prioritized that match *)
(* the predicate, in prioritized order, whatever the plugin map holds: a   *)
(* plugin registered since the last prioritize() is not in the result, a   *)
(* plugin deleted since then still is.                                     *)
C11_FilterQueriesPrioritized ==
  /\ prioritized = <<>>
  /\ [][/\ last'.op # "prioritize" => prioritized' = prioritized
        /\ last'.op = "filter" =>
             /\ OrderedSelection(found', prioritized,
                                 LAMBDA p : Matches(heap[p], last'.args[1]))
             /\ prioritized = <<>> => found' = <<>>
             /\ last'.args[1] = ObjectPredicate({}) => found' = prioritized
       ]_vars

\* filter() has returned a plugin that was deleted after the last
\* prioritize() and not the plugin that was registered after it.
C11_Witness ==
  /\ last.op = "filter" /\ last.args[1] = ObjectPredicate({})
  /\ \E i \in 1 .. Len(found) : found[i] \notin Registered
  /\ \E p \in Registered : ~Contains(found, p)

----------------------------------------------------------------------------
(* Vocabulary of the properties of DependencyCollection.                   *)

\* The positions of the collection col whose descriptor the Injector of col
\* has no descriptor registered for.
Unresolvable(col) ==
  {k \in 1 .. Len(col.items) : registered[col.injector][col.items[k].name] = ""}

\* What injector.get(name) on Injector i returns once the step is over.
GetAfterStep(i, name) ==
  IF registered[i][name] = "factory"
  THEN Instance(i, name, instances'[i][name])
  ELSE Instance(0, name, 0)

(* C12: values() on a collection all of whose descriptor names the         *)
(* injector resolves returns a sequence as long as the collection whose    *)
(* i-th element is what injector.get(collection[i].name) returns;          *)
(* otherwise the UnresolvedNameError of the first descriptor that does not *)
(* resolve reaches the caller, the descriptors before it have been         *)
(* resolved and no descriptor after it has been.                           *)
C12_ValuesResolveInOrder ==
  [][reply'.op = "values" =>
       LET col == collections[reply'.self]
           i   == col.injector
           bad == Unresolvable(col)
       IN  IF bad = {}
           THEN /\ reply'.error = ""
                /\ Len(reply'.values) = Len(col.items)
                /\ \A k \in 1 .. Len(col.items) :
                     /\ reply'.values[k] = GetAfterStep(i, col.items[k].name)
                     /\ registered[i][col.items[k].name] = "factory" =>
                          instances'[i][col.items[k].name] # 0
           ELSE LET first == CHOOSE k \in bad : \A j \in bad : k <= j
                IN  /\ reply'.error = "UnresolvedNameError"
                    /\ reply'.values = <<>>
                    /\ \A n \in DescriptorNames :
                         registered[i][n] = "factory" =>
                           IF \E k \in 1 .. first - 1 : col.items[k].name = n
                           THEN instances'[i][n] # 0
                           ELSE instances'[i][n] = instances[i][n]
    ]_vars

\* values() has failed on a collection whose first descriptor the injector
\* resolved, by invoking its producer, before the second one did not
\* resolve.
C12_Witness ==
  /\ reply.op = "values" /\ reply.error = "UnresolvedNameError"
  /\ LET col == collections[reply.self]
     IN  /\ Len(col.items) = 2
         /\ registered[col.injector][col.items[1].name] = "factory"
         /\ registered[col.injector][col.items[2].name] = ""
         /\ produced[col.injector][col.items[1].name] = 1

----------------------------------------------------------------------------
(* C13: constructing a DependencyCollection and filter() on one resolve    *)
(* nothing: they invoke no producer and leave the cache of every Injector  *)
(* as it is, so a factory whose descriptor is in a collection is not       *)
(* produced before values() or get() asks for it.                          *)
C13_NoEagerResolution ==
  [][reply'.op \in {"new", "filter"} =>
       /\ produced' = produced
       /\ instances' = instances
       /\ \A i \in Injectors, n \in DescriptorNames :
            produced'[i][n] = 0 => instances'[i][n] = 0
    ]_vars

\* filter() has returned a collection that holds the descriptor of a
\* registered factory which has not been produced.
C13_Witness ==
  /\ reply.op = "filter"
  /\ LET col == collections[reply.made]
     IN  \E k \in 1 .. Len(col.items) :
           /\ registered[col.injector][col.items[k].name] = "factory"
           /\ produced[col.injector][col.items[k].name] = 0
           /\ instances[col.injector][col.items[k].name] = 0

----------------------------------------------------------------------------
\* Whether the descriptor matches the predicate: each key/value pair of an
\* object predicate is a field of the descriptor, or fn(descriptor) is true.
DescriptorMatches(descriptor, predicate) ==
  IF predicate.kind = "object"
  THEN \A key \in {"name", "type"} :
         \A kv \in predicate.pairs : kv[1] = key => descriptor[key] = kv[2]
  ELSE predicate.fn = "notFactory" /\ descriptor.type # "factory"

----------------------------------------------------------------------------
(* C15: for a factory descriptor registered in an Injector, over any       *)
(* sequence of get(name) and values() calls on that Injector the producer  *)
(* is invoked at most once, the cached instance is never replaced, and     *)
(* every get(name) and every values() that returns has invoked it exactly  *)
(* once in all and returns that one cached instance, at every position of  *)
(* the collection that names the descriptor.                               *)
C15_FactoryProducedOnce ==
  [][\A i \in Injectors, n \in DescriptorNames :
       registered[i][n] = "factory" =>
         /\ produced'[i][n] <= 1
         /\ instances[i][n] # 0 => instances'[i][n] = instances[i][n]
         /\ (reply'.op = "get" /\ reply'.self = i /\ reply'.args = <<n>>) =>
              /\ reply'.error = ""
              /\ produced'[i][n] = 1
              /\ reply'.values = <<Instance(i, n, 1)>>
              /\ instances'[i][n] = 1
         /\ (reply'.op = "values" /\ reply'.error = ""
               /\ collections[reply'.self].injector = i) =>
              \A k \in 1 .. Len(collections[reply'.self].items) :
                collections[reply'.self].items[k].name = n =>
                  /\ produced'[i][n] = 1
                  /\ reply'.values[k] = Instance(i, n, 1)
                  /\ instances'[i][n] = 1
    ]_vars

\* values() has returned the one cached instance of a factory twice, for a
\* collection that names the factory at both positions.
C15_Witness ==
  /\ reply.op = "values" /\ reply.error = ""
  /\ LET col == collections[reply.self]
     IN  /\ Len(col.items) = 2
         /\ col.items[1] = col.items[2]
         /\ registered[col.injector][col.items[1].name] = "factory"
         /\ reply.values[1] = reply.values[2]
         /\ produced[col.injector][col.items[1].name] = 1

----------------------------------------------------------------------------
\* The place of plugin p in prioritized.
Place(p) == CHOOSE i \in 1 .. Len(prioritized) : prioritized[i] = p

(* C16: prioritize() is stable among the plugins that are eligible         *)
(* together; in particular the plugins without dependencies, eligible from *)
(* the start, stand in prioritized in the order of their registration.     *)
C16_StableAmongEligible ==
  (last.op = "prioritize" /\ last.error = "") =>
    \A p, q \in Registered :
      (Deps(p) = {} /\ Deps(q) = {} /\ KeyIndex(p) < KeyIndex(q)) =>
        Place(p) < Place(q)

----------------------------------------------------------------------------
(* C17: the seeding loop of prioritize() moves every plugin without        *)
(* dependencies into ordered before satisfy is first called, so after a    *)
(* successful prioritize() every plugin without dependencies stands before *)
(* every plugin that has a dependency.                                     *)
C17_SeedTakesAllRoots ==
  (last.op = "prioritize" /\ last.error = "") =>
    /\ \A p, q \in Registered :
         (Deps(p) = {} /\ Deps(q) # {}) => Place(p) < Place(q)
    /\ \A p \in Registered :
         Deps(p) = {} =>
           Contains(Seed(<<>>, PluginValues, 1, Len(PluginValues)).ordered, p)

----------------------------------------------------------------------------
\* Some registered plugin is linked to a dependency that is not registered
\* (any more): the dependency was deleted or replaced after resolve().
Orphaned == \E p \in Registered : \E d \in Deps(p) : d \notin Registered

(* C18: when a dependency link of a registered plugin refers to a plugin   *)
(* that is no longer in the registry, prioritize() makes no progress and   *)
(* ends by throwing CyclicDependencyError.                                 *)
C18_OrphanedLinkFailsExplicitly ==
  (last.op = "prioritize" /\ Orphaned) => last.error = "CyclicDependencyError"

----------------------------------------------------------------------------
(* C19: a prioritize() that fails leaves prioritized as it was, the last   *)
(* order computed successfully or the empty collection of the constructor, *)
(* and no prioritize() changes the plugin map, a plugin's dependencies or  *)
(* dependents links or a started flag.                                     *)
C19_FailureKeepsPrioritized ==
  [][last'.op = "prioritize" =>
       /\ last'.error # "" => prioritized' = prioritized
       /\ plugins' = plugins
       /\ keys' = keys
       /\ Len(heap') = Len(heap)
       /\ \A p \in Ids :
            /\ heap'[p].dependencies = heap[p].dependencies
            /\ heap'[p].dependents = heap[p].dependents
            /\ heap'[p].started = heap[p].started
    ]_vars

\* prioritize() has failed on plugins that resolve() linked into a cycle
\* after an earlier prioritize() had ordered them and initialize() had
\* started them; the earlier order is still there.
C19_Witness ==
  /\ last.op = "prioritize" /\ last.error # ""
  /\ Cyclic
  /\ prioritized # <<>>
  /\ \A p \in PrioritizedSet : heap[p].started

----------------------------------------------------------------------------
(* C20: in every reachable state the dependency links between registered   *)
(* plugins are symmetric: for all registered plugins P and Q,              *)
(* P.dependencies[Q.name] is Q if and only if Q.dependents[P.name] is P.   *)
C20_LinksSymmetric ==
  \A p, q \in Registered :
    heap[p].dependencies[heap[q].name] = q <=> heap[q].dependents[heap[p].name] = p

====
